---- MODULE Spec2Model ----
(***************************************************************************)
(* rattlebeaver: rotation of timestamped backups under a retention policy. *)
(* The model covers the Timestamp abstraction (src/timestamp.rs), the      *)
(* collection of entries from the target directory (src/entry.rs), the     *)
(* retention engine (src/mark.rs), backup creation (src/backup.rs) and the *)
(* list / delete commands (src/main.rs).                                   *)
(*                                                                         *)
(* Local time is modelled as a zone with a fixed UTC offset: wall-clock    *)
(* fields order exactly like the instants they denote and every wall-clock *)
(* value exists exactly once (no daylight-saving gap or overlap).          *)
(***************************************************************************)
EXTENDS Integers, Sequences, FiniteSets, TLC

VARIABLES
    config,   \* the loaded Config (config.rs): archive + ranges
    dir,      \* the backup files of the target directory
    out,      \* the outcome of the last command (add / list / delete)
    tcall     \* the last Timestamp operation applied: function, arguments, result

vars == <<config, dir, out, tcall>>

(***************************************************************************)
(* Bounds of the model.                                                    *)
(***************************************************************************)
MaxLatest == 2
MaxTotal == 2
MaxFiles == 3
ScenarioFiles == 5
MaxShift == 3

(***************************************************************************)
(* timestamp.rs: Range                                                     *)
(***************************************************************************)
Range == {"Minute", "Hour", "Day", "Month", "Year"}

\* config.rs: Ranges::iter_ranges, the order in which the ranges are marked
iter_ranges == <<"Minute", "Hour", "Day", "Month", "Year">>

(***************************************************************************)
(* timestamp.rs: Timestamp(DateTime<Local>), as its wall-clock fields.     *)
(* nano is the sub-second part in nanoseconds.                             *)
(***************************************************************************)
Timestamp(y, mo, d, h, mi, s, n) ==
    [year |-> y, month |-> mo, day |-> d, hour |-> h, minute |-> mi,
     second |-> s, nano |-> n]

IsLeap(y) == (y % 4 = 0 /\ y % 100 # 0) \/ y % 400 = 0

DaysInMonth(y, mo) ==
    IF mo = 2 THEN (IF IsLeap(y) THEN 29 ELSE 28)
    ELSE IF mo \in {4, 6, 9, 11} THEN 30 ELSE 31

\* number of days from 1970-01-01 to the civil date y-mo-d
DaysFromCivil(y, mo, d) ==
    LET yy == IF mo <= 2 THEN y - 1 ELSE y
        era == yy \div 400
        yoe == yy - era * 400
        mp == IF mo > 2 THEN mo - 3 ELSE mo + 9
        doy == (153 * mp + 2) \div 5 + d - 1
        doe == yoe * 365 + yoe \div 4 - yoe \div 100 + doy
    IN era * 146097 + doe - 719468

\* the civil date <<y, mo, d>> of a day number
CivilFromDays(z) ==
    LET zz == z + 719468
        era == zz \div 146097
        doe == zz - era * 146097
        yoe == (doe - doe \div 1460 + doe \div 36524 - doe \div 146096) \div 365
        doy == doe - (365 * yoe + yoe \div 4 - yoe \div 100)
        mp == (5 * doy + 2) \div 153
        d == doy - (153 * mp + 2) \div 5 + 1
        mo == IF mp < 10 THEN mp + 3 ELSE mp - 9
        y == yoe + era * 400 + (IF mo <= 2 THEN 1 ELSE 0)
    IN <<y, mo, d>>

\* derive(PartialOrd, Ord) on Timestamp: the order of the instants
TsKey(t) == <<t.year, t.month, t.day, t.hour, t.minute, t.second, t.nano>>

RECURSIVE LexLess(_, _, _)
LexLess(a, b, i) ==
    IF i > Len(a) THEN FALSE
    ELSE IF a[i] # b[i] THEN a[i] < b[i]
    ELSE LexLess(a, b, i + 1)

TsLess(a, b) == LexLess(TsKey(a), TsKey(b), 1)
TsLeq(a, b) == a = b \/ TsLess(a, b)

\* self.0 + Duration: a fixed number of days and seconds added to the instant
AddDuration(t, days, secs) ==
    LET sod == t.hour * 3600 + t.minute * 60 + t.second + secs
        dn == DaysFromCivil(t.year, t.month, t.day) + days + sod \div 86400
        rem == sod % 86400
        c == CivilFromDays(dn)
    IN Timestamp(c[1], c[2], c[3], rem \div 3600, (rem % 3600) \div 60, rem % 60,
                 t.nano)

\* Rust's integer division and remainder truncate toward zero
TruncDiv(a, b) == IF a >= 0 THEN a \div b ELSE -((-a) \div b)
TruncRem(a, b) == a - b * TruncDiv(a, b)

\* self.0 + RelativeDuration::months(n): the month field moves, the day of
\* month is clamped to the length of the target month, the time is kept
AddMonths(t, months) ==
    LET sum == t.month + months
        y0 == t.year + TruncDiv(sum, 12)
        m0 == TruncRem(sum, 12)
        y == IF m0 < 1 THEN y0 - 1 ELSE y0
        mo == IF m0 < 1 THEN m0 + 12 ELSE m0
        d == IF t.day <= 28 THEN t.day
             ELSE IF t.day > DaysInMonth(y, mo) THEN DaysInMonth(y, mo)
             ELSE t.day
    IN [t EXCEPT !.year = y, !.month = mo, !.day = d]

\* a plausible slip: a month taken as a fixed 30 days, a year as 365
shift_fixed_month(self, range, amount) ==
    CASE range = "Minute" -> AddDuration(self, 0, 60 * amount)
      [] range = "Hour" -> AddDuration(self, 0, 3600 * amount)
      [] range = "Day" -> AddDuration(self, amount, 0)
      [] range = "Month" -> AddDuration(self, 30 * amount, 0)
      [] range = "Year" -> AddDuration(self, 365 * amount, 0)

\* Timestamp::shift
shift(self, range, amount) ==
    CASE range = "Minute" -> AddDuration(self, 0, 60 * amount)
      [] range = "Hour" -> AddDuration(self, 0, 3600 * amount)
      [] range = "Day" -> AddDuration(self, amount, 0)
      [] range = "Month" -> AddMonths(self, amount)
      [] range = "Year" -> AddMonths(self, 12 * amount)

\* a plausible slip: the hour is floored from self instead of from the minute
\* floor, so the seconds survive in the Hour floor and everything above it
floor_hour_from_self(self, range) ==
    LET minute == [self EXCEPT !.second = 0, !.nano = 0]
        hour == [self EXCEPT !.minute = 0]
        day == [hour EXCEPT !.hour = 0]
        month == [day EXCEPT !.day = 1]
        year == [month EXCEPT !.month = 1]
    IN CASE range = "Minute" -> minute
         [] range = "Hour" -> hour
         [] range = "Day" -> day
         [] range = "Month" -> month
         [] range = "Year" -> year

\* Timestamp::floor
floor(self, range) ==
    LET minute == [self EXCEPT !.second = 0, !.nano = 0]
        hour == [minute EXCEPT !.minute = 0]
        day == [hour EXCEPT !.hour = 0]
        month == [day EXCEPT !.day = 1]
        year == [month EXCEPT !.month = 1]
    IN CASE range = "Minute" -> minute
         [] range = "Hour" -> hour
         [] range = "Day" -> day
         [] range = "Month" -> month
         [] range = "Year" -> year

\* Timestamp::now: the clock's instant, wrapped as it is
now(instant) == instant

\* backup.rs get_file_timestamp: the selected instant (clock, file created,
\* file modified) with its nanoseconds zeroed
get_file_timestamp(instant) == [instant EXCEPT !.nano = 0]

(***************************************************************************)
(* The configured timestamp_format, as the list of fields it prints.       *)
(*   "%Y-%m-%d_%H-%M-%S" (the default, config.rs) -> six fields            *)
(*   "%Y-%m-%d_%H-%M"    (a format without seconds) -> five fields         *)
(* A formatted timestamp is the sequence of the printed fields.            *)
(***************************************************************************)
DefaultFormat == "%Y-%m-%d_%H-%M-%S"
MinuteFormat == "%Y-%m-%d_%H-%M"
Formats == {DefaultFormat, MinuteFormat}

FormatFields(format) == IF format = DefaultFormat THEN 6 ELSE 5

\* timestamp.as_ref().format(&config.timestamp_format)  (backup.rs)
format_timestamp(t, format) ==
    SubSeq(<<t.year, t.month, t.day, t.hour, t.minute, t.second>>, 1,
           FormatFields(format))

NoTimestamp == [error |-> "invalid timestamp format"]

\* Timestamp::parse_from_str: the text must carry exactly the fields of the
\* format; fields the format lacks are zero, and so is the sub-second part
parse_from_str(s, format) ==
    IF Len(s) # FormatFields(format) THEN NoTimestamp
    ELSE Timestamp(s[1], s[2], s[3], s[4], s[5],
                   IF Len(s) >= 6 THEN s[6] ELSE 0, 0)

(***************************************************************************)
(* Sorting by the Timestamp order (Vec::sort on timestamps and on entries, *)
(* whose Ord compares the timestamp only: entry.rs Entry::cmp).            *)
(***************************************************************************)
RECURSIVE SortTimestamps(_)
SortTimestamps(S) ==
    IF S = {} THEN <<>>
    ELSE LET m == CHOOSE x \in S : \A y \in S : TsLeq(x, y)
         IN <<m>> \o SortTimestamps(S \ {m})

RECURSIVE Reverse(_)
Reverse(s) == IF s = <<>> THEN <<>> ELSE Reverse(Tail(s)) \o <<Head(s)>>

Take(s, n) == SubSeq(s, 1, IF n < Len(s) THEN n ELSE Len(s))

Elems(s) == {s[i] : i \in DOMAIN s}

(***************************************************************************)
(* entry.rs                                                                *)
(***************************************************************************)
\* Fulfillment; range "None" is the latest rule
Fulfillment(range, index, first_or_last) ==
    [range |-> range, index |-> index, first_or_last |-> first_or_last]

\* A backup file of the target directory: <prefix><name>.<stem>.tar.gz, where
\* name is the formatted timestamp and stem the stem of the backed-up source.
File(name, stem) == [name |-> name, stem |-> stem]

\* Entry::from_path: the timestamp is parsed from the text between the prefix
\* and the first '.'; the fulfills start empty
Entry_from_path(path, archive) ==
    LET timestamp == parse_from_str(path.name, archive.timestamp_format)
    IN IF timestamp = NoTimestamp THEN NoTimestamp
       ELSE [path |-> path, timestamp |-> timestamp, fulfills |-> <<>>]

\* all_backups.sort() on entries of distinct timestamps
SortEntries(S) ==
    LET order == SortTimestamps({e.timestamp : e \in S})
    IN [i \in 1..Len(order) |-> CHOOSE e \in S : e.timestamp = order[i]]

\* a plausible slip: no conflict check, so a later file with the same timestamp
\* replaces the earlier one in the timestamps map and one entry is returned
read_dir_overwrite(files, archive) ==
    LET parsed == {Entry_from_path(f, archive) : f \in files}
        kept == {CHOOSE e \in parsed : e.timestamp = t :
                    t \in {p.timestamp : p \in parsed}}
    IN [ok |-> TRUE, error |-> "", entries |-> SortEntries(kept)]

\* read_dir: parse every file, fail on a file that does not parse and on two
\* files of one timestamp, return the entries sorted by timestamp.  (Every
\* file in dir was written under the loaded format, so at most one of the two
\* failures is possible and the order of the directory walk does not matter.)
read_dir(files, archive) ==
    LET parsed == {Entry_from_path(f, archive) : f \in files}
    IN IF NoTimestamp \in parsed
         THEN [ok |-> FALSE, error |-> "parse", entries |-> <<>>]
       ELSE IF \E a, b \in parsed : a # b /\ a.timestamp = b.timestamp
         THEN [ok |-> FALSE, error |-> "timestamps conflict", entries |-> <<>>]
       ELSE [ok |-> TRUE, error |-> "", entries |-> SortEntries(parsed)]

(***************************************************************************)
(* mark.rs: Buckets(HashMap<Timestamp, Vec<Timestamp>>)                    *)
(***************************************************************************)
\* Buckets::new
Buckets_new(buckets) == [b \in Elems(buckets) |-> <<>>]

\* a plausible slip: a floor without a bucket opens one (entry().or_default())
Buckets_push_or_insert(self, bucket, value) ==
    [b \in DOMAIN self \cup {bucket} |->
        IF b # bucket THEN self[b]
        ELSE IF b \in DOMAIN self THEN Append(self[b], value)
        ELSE <<value>>]

\* a plausible slip: the key of the bucket pushed as its member
Buckets_push_key(self, bucket, value) ==
    IF bucket \notin DOMAIN self THEN self
    ELSE [self EXCEPT ![bucket] = Append(@, bucket)]

\* Buckets::push (the bool it returns is discarded by the caller)
Buckets_push(self, bucket, value) ==
    IF bucket \notin DOMAIN self THEN self
    ELSE [self EXCEPT ![bucket] = Append(@, value)]

\* a plausible slip: the members of a bucket left in insertion order
Buckets_sorted_unsorted(self) ==
    LET order == Reverse(SortTimestamps(DOMAIN self))
    IN [i \in 1..Len(order) |-> <<order[i], self[order[i]]>>]

\* Buckets::sorted: keys descending, the members of each key ascending
Buckets_sorted(self) ==
    LET order == Reverse(SortTimestamps(DOMAIN self))
    IN [i \in 1..Len(order) |->
            <<order[i], SortTimestamps(Elems(self[order[i]]))>>]

(***************************************************************************)
(* mark.rs: mark_range.  all_backups is the HashMap<Timestamp, Entry>: a   *)
(* function from the timestamps to the entries.                            *)
(***************************************************************************)
\* config.rs RollingRange
RollingRange(total, allow_sparse, include_first, include_last) ==
    [total |-> total, allow_sparse |-> allow_sparse,
     include_first |-> include_first, include_last |-> include_last]

\* a plausible slip: the fixed cadence shifted from now itself, not from its floor
bucket_timestamps_unfloored(all_backups, now_, range, rr) ==
    IF rr.allow_sparse
    THEN Take(Reverse(SortTimestamps({floor(ts, range) : ts \in DOMAIN all_backups})),
              rr.total)
    ELSE [k \in 1..rr.total |-> shift(now_, range, -(k - 1))]

\* a plausible slip: the sparse keys taken from the oldest end
bucket_timestamps_oldest(all_backups, now_, range, rr) ==
    IF rr.allow_sparse
    THEN Take(SortTimestamps({floor(ts, range) : ts \in DOMAIN all_backups}),
              rr.total)
    ELSE [k \in 1..rr.total |-> shift(floor(now_, range), range, -(k - 1))]

\* mark_range, "Create all buckets": the bucket keys of a range
bucket_timestamps(all_backups, now_, range, rr) ==
    IF rr.allow_sparse
    THEN Take(Reverse(SortTimestamps({floor(ts, range) : ts \in DOMAIN all_backups})),
              rr.total)
    ELSE [k \in 1..rr.total |-> shift(floor(now_, range), range, -(k - 1))]

\* mark_range, "Place backups in buckets": the timestamp of every backup is
\* pushed to the bucket of its floor.  The HashMap is walked in an unspecified
\* order; the walk here is newest first, and Buckets::sorted orders the members
\* afterwards.
RECURSIVE place_backups(_, _, _)
place_backups(buckets, walk, range) ==
    IF walk = <<>> THEN buckets
    ELSE place_backups(Buckets_push(buckets, floor(Head(walk), range), Head(walk)),
                       Tail(walk), range)

\* the buckets of a range when the tagging loop starts: buckets.sorted() after
\* backup.timestamp of every value of the map was pushed
sorted_buckets(all_backups, now_, range, rr) ==
    Buckets_sorted(
        place_backups(
            Buckets_new(bucket_timestamps(all_backups, now_, range, rr)),
            Reverse(SortTimestamps({all_backups[k].timestamp :
                                       k \in DOMAIN all_backups})),
            range))

\* original.fulfills.push(..) behind all_backups.get_mut(timestamp)
push_fulfillment(marked, timestamp, f) ==
    IF ~marked.ok \/ timestamp \notin DOMAIN marked.all_backups
    THEN [marked EXCEPT !.ok = FALSE]
    ELSE [marked EXCEPT !.all_backups[timestamp].fulfills = Append(@, f)]

\* a plausible slip: the second push copied from the first with its flag
\* (first_or_last: true) left unchanged
tag_bucket_last_as_first(marked, i, backup_timestamps, range, rr) ==
    LET first == IF rr.include_first /\ backup_timestamps # <<>>
                 THEN push_fulfillment(marked, backup_timestamps[1],
                                       Fulfillment(range, i, TRUE))
                 ELSE marked
    IN IF rr.include_last /\ backup_timestamps # <<>>
       THEN push_fulfillment(first, backup_timestamps[Len(backup_timestamps)],
                             Fulfillment(range, i, TRUE))
       ELSE first

\* one round of the tagging loop: bucket i of the sorted buckets
tag_bucket(marked, i, backup_timestamps, range, rr) ==
    LET first == IF rr.include_first /\ backup_timestamps # <<>>
                 THEN push_fulfillment(marked, backup_timestamps[1],
                                       Fulfillment(range, i, TRUE))
                 ELSE marked
    IN IF rr.include_last /\ backup_timestamps # <<>>
       THEN push_fulfillment(first, backup_timestamps[Len(backup_timestamps)],
                             Fulfillment(range, i, FALSE))
       ELSE first

\* mark_range, "Sort buckets and take first/last"
RECURSIVE tag_buckets(_, _, _, _, _)
tag_buckets(marked, sorted, i, range, rr) ==
    IF i > Len(sorted) \/ ~marked.ok THEN marked
    ELSE tag_buckets(tag_bucket(marked, i, sorted[i][2], range, rr),
                     sorted, i + 1, range, rr)

\* mark_range: ok is FALSE when it bails with "not found in original list"
mark_range(all_backups, now_, range, rr) ==
    tag_buckets([ok |-> TRUE, all_backups |-> all_backups],
                sorted_buckets(all_backups, now_, range, rr), 1, range, rr)

(***************************************************************************)
(* mark.rs: read_backups                                                   *)
(***************************************************************************)
\* a plausible slip: the latest rule numbering from 0
mark_latest_from_zero(all_backups, latest) ==
    LET n == Len(all_backups)
    IN [j \in 1..n |->
          IF n - j < latest
          THEN [all_backups[j] EXCEPT
                   !.fulfills = Append(@, Fulfillment("None", n - j, TRUE))]
          ELSE all_backups[j]]

\* "Mark latest": the sorted entries walked from the newest end, the first
\* `latest` of them tagged with their 1-based position in that walk
mark_latest(all_backups, latest) ==
    LET n == Len(all_backups)
    IN [j \in 1..n |->
          IF n - j < latest
          THEN [all_backups[j] EXCEPT
                   !.fulfills = Append(@, Fulfillment("None", n - j + 1, TRUE))]
          ELSE all_backups[j]]

\* the loop over config.ranges.iter_ranges(), stopped by the first failure
RECURSIVE mark_ranges(_, _, _, _)
mark_ranges(marked, now_, ranges, i) ==
    IF i > Len(iter_ranges) \/ ~marked.ok THEN marked
    ELSE mark_ranges(mark_range(marked.all_backups, now_, iter_ranges[i],
                                ranges.range[iter_ranges[i]]),
                     now_, ranges, i + 1)

\* a plausible slip: the final sort left out, the map's values returned in
\* another order (here newest first)
final_backups_unsorted(all_backups) ==
    LET order == Reverse(SortTimestamps(DOMAIN all_backups))
    IN [i \in 1..Len(order) |-> all_backups[order[i]]]

\* all_backups.into_values().collect() followed by final_backups.sort()
final_backups(all_backups) ==
    SortEntries({all_backups[ts] : ts \in DOMAIN all_backups})

Failure(error, now_) ==
    [ok |-> FALSE, error |-> error, entries |-> <<>>, now |-> now_,
     bucket_timestamps |-> <<>>]

\* all_backups.into_iter().map(|b| (b.timestamp, b)).collect()
by_timestamp(all_backups) ==
    [ts \in {all_backups[j].timestamp : j \in DOMAIN all_backups} |->
        CHOOSE b \in Elems(all_backups) : b.timestamp = ts]

\* the end of read_backups: the marked map as a sorted Vec.  Besides the
\* Result, the instant taken as now and the bucket keys that each mark_range
\* call built are reported.
read_marked(all_backups, marked, now_, cfg) ==
    IF ~marked.ok THEN Failure("not found in original list", now_)
    ELSE [ok |-> TRUE, error |-> "",
          entries |-> final_backups(marked.all_backups),
          now |-> now_,
          bucket_timestamps |->
             [r \in Range |->
                 bucket_timestamps(all_backups, now_, r, cfg.ranges.range[r])]]

\* read_backups from the HashMap on
read_map(all_backups, now_, cfg) ==
    read_marked(all_backups,
                mark_ranges([ok |-> TRUE, all_backups |-> all_backups],
                            now_, cfg.ranges, 1),
                now_, cfg)

\* read_backups after read_dir
read_listed(listed, now_, cfg) ==
    IF ~listed.ok THEN Failure(listed.error, now_)
    ELSE read_map(by_timestamp(mark_latest(listed.entries, cfg.ranges.latest)),
                  now_, cfg)

\* read_backups
read_backups(files, cfg, instant) ==
    read_listed(read_dir(files, cfg.archive), now(instant), cfg)

(***************************************************************************)
(* Inputs: configurations, clock / file instants, sources.                 *)
(***************************************************************************)
Archive(format) == [prefix |-> ".rattlebeaver.", timestamp_format |-> format]

RollingRanges ==
    {RollingRange(t, s, f, l) : t \in 0..MaxTotal, s \in BOOLEAN,
                                f \in BOOLEAN, l \in BOOLEAN}

\* every range under the same rule
UniformConfig(latest, rr, format) ==
    [archive |-> Archive(format),
     ranges |-> [latest |-> latest, range |-> [r \in Range |-> rr]]]

\* latest = 1, days = {2, sparse, first, last}, every other range total = 0
ScenarioConfig ==
    [archive |-> Archive(DefaultFormat),
     ranges |-> [latest |-> 1,
                 range |-> [r \in Range |->
                              IF r = "Day" THEN RollingRange(2, TRUE, TRUE, TRUE)
                              ELSE RollingRange(0, TRUE, TRUE, TRUE)]]]

Configs ==
    {UniformConfig(n, rr, DefaultFormat) : n \in 0..MaxLatest, rr \in RollingRanges}
    \cup {ScenarioConfig}

\* configurations whose timestamp_format drops the seconds
MinuteConfigs ==
    {UniformConfig(n, RollingRange(MaxTotal, s, TRUE, TRUE), MinuteFormat) :
        n \in {0, MaxLatest}, s \in BOOLEAN}

\* T of the scenario and the four days before it (across the end of a leap
\* February), two more instants in T's minute and hour, one in the year before
Noon(mo, d) == Timestamp(2024, mo, d, 12, 0, 0, 0)
ScenarioInstants ==
    {Noon(2, 27), Noon(2, 28), Noon(2, 29), Noon(3, 1), Noon(3, 2),
     Timestamp(2024, 3, 2, 12, 0, 30, 0)}

Instants ==
    {Noon(2, 29), Noon(3, 1), Noon(3, 2),
     Timestamp(2024, 3, 2, 12, 0, 30, 500000000),
     Timestamp(2024, 3, 2, 12, 45, 10, 0),
     Timestamp(2023, 12, 31, 23, 59, 59, 0)}

\* the clock when a listing or a deletion runs
Clock ==
    {Timestamp(2024, 3, 2, 12, 45, 40, 500000000),
     Timestamp(2024, 1, 1, 0, 0, 30, 0)}

ScenarioClock == {Noon(3, 2), Timestamp(2024, 3, 3, 0, 0, 0, 500000000)}

Sources == {"a", "b"}

(***************************************************************************)
(* The commands.  One process runs one command (main.rs main); out is what *)
(* the running process has produced, and is empty between two runs.        *)
(***************************************************************************)
Call(fn, self, range, amount, format, ret) ==
    [fn |-> fn, self |-> self, range |-> range, amount |-> amount,
     format |-> format, ret |-> ret]

NoCall == Call("none", <<>>, "None", 0, "", <<>>)

Output(cmd, status, read, path, execute) ==
    [cmd |-> cmd, status |-> status, entries |-> read.entries, now |-> read.now,
     bucket_timestamps |-> read.bucket_timestamps, path |-> path,
     execute |-> execute]

NoRead == [entries |-> <<>>, now |-> <<>>, bucket_timestamps |-> <<>>]
NoOutput == Output("none", "", NoRead, <<>>, FALSE)

\* backup.rs create_backup(source, target, config, timestamp, archive_behavior):
\* `instant` is what the timestamp selection reads (the clock, or the source's
\* created / modified time), `source` the stem the archive is named after.
\* File::create / fs::copy replace a file of the same name.
CreateBackup(source, instant, cap) ==
    /\ out = NoOutput
    /\ Cardinality(dir) < cap
    /\ LET timestamp == get_file_timestamp(instant)
           existing_backups == read_dir(dir, config.archive)
           file_name == format_timestamp(timestamp, config.archive.timestamp_format)
           target_path == File(file_name, source)
       IN IF ~existing_backups.ok
          THEN /\ out' = Output("add", "Other: read existing backups", NoRead, <<>>, FALSE)
               /\ dir' = dir
          ELSE IF \E existing \in Elems(existing_backups.entries) :
                     timestamp = existing.timestamp
          THEN /\ out' = Output("add", "TimestampConflict", NoRead, <<>>, FALSE)
               /\ dir' = dir
          ELSE /\ out' = Output("add", "ok", NoRead, target_path, FALSE)
               /\ dir' = dir \cup {target_path}
    /\ UNCHANGED <<config, tcall>>

\* main.rs list: read_backups, then one line per entry
List(instant) ==
    /\ out = NoOutput
    /\ \E read \in {read_backups(dir, config, instant)} :
          out' = Output("list", IF read.ok THEN "ok" ELSE read.error, read, <<>>, FALSE)
    /\ UNCHANGED <<config, dir, tcall>>

\* a plausible slip: the filter inverted, so the kept backups are the ones listed
delete_backups_kept(all_backups) ==
    SelectSeq(all_backups, LAMBDA b : b.fulfills # <<>>)

\* delete_stale: .into_iter().filter(|b| b.fulfills.is_empty()).collect()
delete_backups(all_backups) ==
    SelectSeq(all_backups, LAMBDA b : b.fulfills = <<>>)

\* main.rs delete_stale: the entries without fulfillment are printed and, with
\* execute, removed
DeleteStale(execute, instant) ==
    /\ out = NoOutput
    /\ \E read \in {read_backups(dir, config, instant)} :
          /\ out' = Output("delete", IF read.ok THEN "ok" ELSE read.error, read,
                           <<>>, execute)
          /\ dir' = IF read.ok /\ execute
                    THEN dir \ {b.path : b \in Elems(delete_backups(read.entries))}
                    ELSE dir
    /\ UNCHANGED <<config, tcall>>

\* main.rs main returns: the process ends
Exit ==
    /\ out # NoOutput
    /\ out' = NoOutput
    /\ UNCHANGED <<config, dir, tcall>>

(***************************************************************************)
(* Spec: the program under the default timestamp format, one source.       *)
(***************************************************************************)
Init ==
    /\ config \in Configs
    /\ dir = {}
    /\ out = NoOutput
    /\ tcall = NoCall

Next ==
    \/ \E instant \in Instants : CreateBackup("a", instant, MaxFiles)
    \/ \E instant \in Clock : List(instant)
    \/ \E execute \in BOOLEAN, instant \in Clock : DeleteStale(execute, instant)
    \/ Exit

Spec == Init /\ [][Next]_vars

(***************************************************************************)
(* SpecMinute: the program under a timestamp format without seconds, two   *)
(* sources.                                                                *)
(***************************************************************************)
InitMinute ==
    /\ config \in MinuteConfigs
    /\ dir = {}
    /\ out = NoOutput
    /\ tcall = NoCall

NextMinute ==
    \/ \E source \in Sources, instant \in Instants :
          CreateBackup(source, instant, MaxFiles)
    \/ \E instant \in Clock : List(instant)
    \/ \E execute \in BOOLEAN, instant \in Clock : DeleteStale(execute, instant)
    \/ Exit

SpecMinute == InitMinute /\ [][NextMinute]_vars

(***************************************************************************)
(* SpecScenario: the program under the policy of the end-to-end scenario,  *)
(* with backups one day apart.                                             *)
(***************************************************************************)
InitScenario ==
    /\ config = ScenarioConfig
    /\ dir = {}
    /\ out = NoOutput
    /\ tcall = NoCall

NextScenario ==
    \/ \E instant \in ScenarioInstants : CreateBackup("a", instant, ScenarioFiles)
    \/ \E instant \in ScenarioClock : List(instant)
    \/ \E execute \in BOOLEAN, instant \in ScenarioClock : DeleteStale(execute, instant)
    \/ Exit

SpecScenario == InitScenario /\ [][NextScenario]_vars

(***************************************************************************)
(* SpecTime: the Timestamp operations on their own.  tcall is the last     *)
(* operation applied, with its receiver / argument and its result.         *)
(***************************************************************************)
\* instants around the ends of minutes, hours, days, months and years, in a
\* common year and a leap year, with and without a sub-second part
TimePool ==
    {t \in {Timestamp(y, mo, d, h, mi, sec, n) :
               y \in {2023, 2024}, mo \in {1, 2, 3, 12}, d \in {1, 28, 29, 30, 31},
               h \in {0, 23}, mi \in {0, 59}, sec \in {0, 59}, n \in {0, 500000000}} :
        t.day <= DaysInMonth(t.year, t.month)}

ShiftAmounts == (-MaxShift..MaxShift) \cup {-13, 13}

\* an instant read from the clock or from a file's metadata: not yet a Timestamp
Reading(instant) == Call("instant", <<>>, "None", 0, "", instant)

\* Timestamp::now() when the clock reads tcall.ret
TsNow ==
    /\ tcall.fn = "instant"
    /\ tcall' = Call("now", tcall.ret, "None", 0, "", now(tcall.ret))
    /\ UNCHANGED <<config, dir, out>>

\* get_file_timestamp(file, selection) when the selected time is tcall.ret
TsGetFileTimestamp ==
    /\ tcall.fn = "instant"
    /\ tcall' = Call("get_file_timestamp", tcall.ret, "None", 0, "",
                     get_file_timestamp(tcall.ret))
    /\ UNCHANGED <<config, dir, out>>

\* Timestamp::parse_from_str(s, format) on a file name that was written under
\* the format `written`
TsParse(written, format) ==
    /\ tcall.fn = "instant"
    /\ LET s == format_timestamp(tcall.ret, written)
       IN tcall' = Call("parse_from_str", s, "None", 0, format,
                        parse_from_str(s, format))
    /\ UNCHANGED <<config, dir, out>>

\* self.floor(range) on a constructed Timestamp or on the result of a shift
TsFloor(range) ==
    /\ tcall.fn \in {"now", "get_file_timestamp", "shift"}
    /\ tcall' = Call("floor", tcall.ret, range, 0, "", floor(tcall.ret, range))
    /\ UNCHANGED <<config, dir, out>>

\* self.shift(range, amount) on a constructed Timestamp or on the floor of one
TsShift(range, amount) ==
    /\ \/ tcall.fn \in {"now", "get_file_timestamp"}
       \/ tcall.fn = "floor" /\ tcall.self \in TimePool
    /\ tcall' = Call("shift", tcall.ret, range, amount, "",
                     shift(tcall.ret, range, amount))
    /\ UNCHANGED <<config, dir, out>>

InitTime ==
    /\ config = ScenarioConfig
    /\ dir = {}
    /\ out = NoOutput
    /\ \E instant \in TimePool : tcall = Reading(instant)

NextTime ==
    \/ TsNow
    \/ TsGetFileTimestamp
    \/ \E written \in Formats, format \in Formats : TsParse(written, format)
    \/ \E range \in Range : TsFloor(range)
    \/ \E range \in Range, amount \in ShiftAmounts : TsShift(range, amount)

SpecTime == InitTime /\ [][NextTime]_vars

(***************************************************************************)
(* Properties of the Timestamp operations (SpecTime).                      *)
(***************************************************************************)
\* t is the start of its unit of the range, and lies in the unit of u
StartOfUnit(t, u, range) ==
    /\ t.nano = 0 /\ t.second = 0
    /\ t.minute = IF range = "Minute" THEN u.minute ELSE 0
    /\ t.hour = IF range \in {"Minute", "Hour"} THEN u.hour ELSE 0
    /\ t.day = IF range \in {"Minute", "Hour", "Day"} THEN u.day ELSE 1
    /\ t.month = IF range = "Year" THEN 1 ELSE u.month
    /\ t.year = u.year

\* C8: monotonic flooring.  After t.floor(range): the floors of t nest,
\* floor(t, Year) <= floor(t, Month) <= floor(t, Day) <= floor(t, Hour) <=
\* floor(t, Minute) <= t, and the floor returned is the start of t's unit
\* (seconds and sub-seconds zeroed for Minute, also the minutes for Hour, also
\* the hour for Day, also day = 1 for Month, also month = 1 for Year).
C8_MonotonicFlooring ==
    tcall.fn = "floor" =>
        LET t == tcall.self
        IN /\ TsLeq(floor(t, "Year"), floor(t, "Month"))
           /\ TsLeq(floor(t, "Month"), floor(t, "Day"))
           /\ TsLeq(floor(t, "Day"), floor(t, "Hour"))
           /\ TsLeq(floor(t, "Hour"), floor(t, "Minute"))
           /\ TsLeq(floor(t, "Minute"), t)
           /\ TsLeq(tcall.ret, t)
           /\ StartOfUnit(tcall.ret, t, tcall.range)

\* a floor that moved its argument in every field it may move: an Hour, Day,
\* Month and Year floor of an instant late in December
C8_Witness ==
    /\ tcall.fn = "floor"
    /\ tcall.range = "Year"
    /\ tcall.self.month = 12 /\ tcall.self.day = 31 /\ tcall.self.hour = 23
    /\ tcall.self.minute = 59 /\ tcall.self.second = 59 /\ tcall.self.nano # 0
    /\ TsLess(tcall.ret, tcall.self)

\* C9: shift/floor interaction.  A month-floored timestamp shifted by whole
\* months is month-floored: flooring the result to Month changes nothing.
C9_ShiftKeepsMonthFloor ==
    (/\ tcall.fn = "shift"
     /\ tcall.range = "Month"
     /\ floor(tcall.self, "Month") = tcall.self)
    => floor(tcall.ret, "Month") = tcall.ret

\* a month floor shifted backward across the start of a year
C9_Witness ==
    /\ tcall.fn = "shift"
    /\ tcall.range = "Month"
    /\ floor(tcall.self, "Month") = tcall.self
    /\ tcall.amount < 0
    /\ tcall.ret.year < tcall.self.year
    /\ tcall.ret.month # tcall.self.month

\* C10: second precision.  Every Timestamp constructed by Timestamp::now(),
\* parse_from_str or get_file_timestamp has no sub-second part.
C10_SecondPrecision ==
    (/\ tcall.fn \in {"now", "parse_from_str", "get_file_timestamp"}
     /\ tcall.ret # NoTimestamp)
    => tcall.ret.nano = 0

(***************************************************************************)
(* Properties of read_backups (Spec, SpecMinute, SpecScenario), read off   *)
(* the output of a list or delete command.                                 *)
(***************************************************************************)
ReadOk == out.cmd \in {"list", "delete"} /\ out.status = "ok"

\* the policy of a range
Rule(range) == config.ranges.range[range]

\* the fulfillments of an entry for one range (or for "None", the latest rule)
TagsOf(e, range) == {e.fulfills[i] : i \in {j \in DOMAIN e.fulfills :
                                              e.fulfills[j].range = range}}

\* how many entries of the output are newer than e
Newer(e) == Cardinality({o \in Elems(out.entries) : TsLess(e.timestamp, o.timestamp)})

\* C1: latest-N marking.  The min(latest, count) newest entries, and only they,
\* carry a range = None fulfillment: exactly one, first_or_last = true, with
\* index i+1 for the i-th newest (0-indexed).
C1_LatestMarking ==
    ReadOk =>
        \A e \in Elems(out.entries) :
            SelectSeq(e.fulfills, LAMBDA f : f.range = "None")
              = IF Newer(e) < config.ranges.latest
                THEN <<Fulfillment("None", Newer(e) + 1, TRUE)>>
                ELSE <<>>

\* three entries under latest = 2: the oldest is not marked, the middle one is #2
C1_Witness ==
    /\ ReadOk
    /\ config.ranges.latest = 2
    /\ Len(out.entries) = 3
    /\ TagsOf(out.entries[1], "None") = {}
    /\ TagsOf(out.entries[2], "None") = {Fulfillment("None", 2, TRUE)}
    /\ TagsOf(out.entries[3], "None") = {Fulfillment("None", 1, TRUE)}

\* the bucket keys selected for a range, and the rank of a key among them
Keys(range) == Elems(out.bucket_timestamps[range])
Rank(k, range) == 1 + Cardinality({o \in Keys(range) : TsLess(k, o)})
Members(k, range) == {e \in Elems(out.entries) : floor(e.timestamp, range) = k}
Earliest(e, S) == e \in S /\ \A o \in S : TsLeq(e.timestamp, o.timestamp)
Latest(e, S) == e \in S /\ \A o \in S : TsLeq(o.timestamp, e.timestamp)

\* C2: per-range tagging.  For every range, an entry's fulfillments of that
\* range are exactly: (range, rank, true) for each selected key of which it is
\* the earliest member, if include_first; (range, rank, false) for each
\* selected key of which it is the latest member, if include_last.
C2_RangeTagging ==
    ReadOk =>
        \A range \in Range : \A e \in Elems(out.entries) :
            TagsOf(e, range)
              = {Fulfillment(range, Rank(k, range), TRUE) :
                    k \in {x \in Keys(range) : Rule(range).include_first
                                 /\ Earliest(e, Members(x, range))}}
                \cup
                {Fulfillment(range, Rank(k, range), FALSE) :
                    k \in {x \in Keys(range) : Rule(range).include_last
                                 /\ Latest(e, Members(x, range))}}

\* a bucket of rank 2 with two members under both flags (the earlier is its
\* first, the later its last) and a bucket of rank 1 whose only member is both
C2_Witness ==
    /\ ReadOk
    /\ Len(out.entries) = 3
    /\ \E range \in Range :
          /\ Rule(range).include_first /\ Rule(range).include_last
          /\ TagsOf(out.entries[1], range) = {Fulfillment(range, 2, TRUE)}
          /\ TagsOf(out.entries[2], range) = {Fulfillment(range, 2, FALSE)}
          /\ TagsOf(out.entries[3], range)
               = {Fulfillment(range, 1, TRUE), Fulfillment(range, 1, FALSE)}

\* the distinct floors present among the entries
Floors(range) == {floor(e.timestamp, range) : e \in Elems(out.entries)}

Min(a, b) == IF a < b THEN a ELSE b

\* C3: sparse key selection.  Under allow_sparse the keys are the `total`
\* greatest distinct floors present: min(total, distinct floors) keys, each a
\* floor of some entry, each greater than every floor left out; total = 0
\* selects no key and gives no tag.
C3_SparseKeys ==
    ReadOk =>
        \A range \in Range :
            Rule(range).allow_sparse =>
                /\ Keys(range) \subseteq Floors(range)
                /\ Len(out.bucket_timestamps[range]) = Cardinality(Keys(range))
                /\ Cardinality(Keys(range))
                     = Min(Rule(range).total, Cardinality(Floors(range)))
                /\ \A k \in Keys(range) : \A f \in Floors(range) \ Keys(range) :
                       TsLess(f, k)
                /\ \A k \in Keys(range) : Members(k, range) # {}
                /\ Rule(range).total = 0 =>
                       \A e \in Elems(out.entries) : TagsOf(e, range) = {}

\* three distinct day floors under total = 2: the oldest day is left out
C3_Witness ==
    /\ ReadOk
    /\ Rule("Day").allow_sparse /\ Rule("Day").total = 2
    /\ Cardinality(Floors("Day")) = 3
    /\ Cardinality(Keys("Day")) = 2
    /\ floor(out.entries[1].timestamp, "Day") \notin Keys("Day")

\* the number of the unit of a range that holds t
UnitIndex(t, range) ==
    LET days == DaysFromCivil(t.year, t.month, t.day)
    IN CASE range = "Minute" -> days * 1440 + t.hour * 60 + t.minute
         [] range = "Hour" -> days * 24 + t.hour
         [] range = "Day" -> days
         [] range = "Month" -> t.year * 12 + t.month
         [] range = "Year" -> t.year

\* C4: fixed cadence.  Without allow_sparse there are exactly `total` keys,
\* whatever the entries: key k+1 is the start of the unit k units before the
\* unit of now.  An entry tagged for the range lies in the bucket whose
\* position k+1 is the index of the tag; a key without entries gives no tag
\* and no failure.
C4_FixedCadence ==
    out.cmd \in {"list", "delete"} /\ out.status # "timestamps conflict" =>
        /\ out.status = "ok"
        /\ \A range \in Range :
            ~Rule(range).allow_sparse =>
                LET keys == out.bucket_timestamps[range]
                IN /\ Len(keys) = Rule(range).total
                   /\ \A i \in DOMAIN keys :
                        /\ StartOfUnit(keys[i], keys[i], range)
                        /\ UnitIndex(keys[i], range)
                             = UnitIndex(out.now, range) - (i - 1)
                   /\ \A e \in Elems(out.entries) : \A f \in TagsOf(e, range) :
                        /\ f.index \in DOMAIN keys
                        /\ floor(e.timestamp, range) = keys[f.index]

\* two keys, the first without any entry, and an entry tagged with index 2
C4_Witness ==
    /\ ReadOk
    /\ \E range \in Range :
          /\ ~Rule(range).allow_sparse
          /\ Len(out.bucket_timestamps[range]) = 2
          /\ Members(out.bucket_timestamps[range][1], range) = {}
          /\ \E e \in Elems(out.entries) :
                Fulfillment(range, 2, TRUE) \in TagsOf(e, range)

\* the timestamp a backup file parses to under the loaded format
FileTimestamp(f) == parse_from_str(f.name, config.archive.timestamp_format)

\* the directory a list, or a delete without execute, has read is still there
ReadOfDir == out.cmd = "list" \/ (out.cmd = "delete" /\ ~out.execute)

\* C5: read_backups returns exactly the entries of the directory, each with
\* its path and timestamp, as a sequence strictly ascending by timestamp.
C5_SameEntriesSorted ==
    ReadOfDir /\ out.status = "ok" =>
        /\ {[path |-> e.path, timestamp |-> e.timestamp] : e \in Elems(out.entries)}
             = {[path |-> f, timestamp |-> FileTimestamp(f)] : f \in dir}
        /\ Len(out.entries) = Cardinality(dir)
        /\ \A i \in 1..(Len(out.entries) - 1) :
               TsLess(out.entries[i].timestamp, out.entries[i + 1].timestamp)

\* three entries returned, under a policy that tagged the middle one only
C5_Witness ==
    /\ ReadOfDir /\ out.status = "ok"
    /\ Len(out.entries) = 3
    /\ out.entries[1].fulfills = <<>>
    /\ out.entries[2].fulfills # <<>>
    /\ out.entries[3].fulfills = <<>>

\* two distinct backup files of the directory parse to the same Timestamp
HasConflict ==
    \E f, g \in dir : f # g /\ FileTimestamp(f) = FileTimestamp(g)

\* C6: duplicate-timestamp rejection.  Over a directory with two files of one
\* Timestamp, list and delete fail with the timestamp conflict and return no
\* entry, and add fails on reading the existing backups.
C6_DuplicateRejected ==
    HasConflict =>
        /\ out.cmd \in {"list", "delete"} =>
              out.status = "timestamps conflict" /\ out.entries = <<>>
        /\ (out.cmd = "add" /\ out.status # "ok") =>
              out.status = "Other: read existing backups"

\* a listing that ran over a directory with a conflict
C6_Witness ==
    /\ HasConflict
    /\ out.cmd = "list"
    /\ out.status = "timestamps conflict"

\* C7: end-to-end scenario.  Entries at T-4d .. T with T = now, latest = 1,
\* days = {2, sparse, first, last}, every other total = 0: T carries exactly
\* latest #1, first of day #1 and last of day #1; T-1d exactly first of day #2
\* and last of day #2; T-2d, T-3d and T-4d carry nothing.
C7_Scenario ==
    (/\ ReadOfDir
     /\ config.ranges.latest = 1
     /\ Rule("Day") = RollingRange(2, TRUE, TRUE, TRUE)
     /\ \A range \in Range \ {"Day"} : Rule(range).total = 0
     /\ Cardinality(dir) = 5
     /\ {FileTimestamp(f) : f \in dir} = {shift(out.now, "Day", -k) : k \in 0..4})
    => /\ out.status = "ok"
       /\ Len(out.entries) = 5
       /\ \A k \in 0..4 : out.entries[5 - k].timestamp = shift(out.now, "Day", -k)
       /\ Len(out.entries[5].fulfills) = 3
       /\ Elems(out.entries[5].fulfills)
            = {Fulfillment("None", 1, TRUE), Fulfillment("Day", 1, TRUE),
               Fulfillment("Day", 1, FALSE)}
       /\ Len(out.entries[4].fulfills) = 2
       /\ Elems(out.entries[4].fulfills)
            = {Fulfillment("Day", 2, TRUE), Fulfillment("Day", 2, FALSE)}
       /\ \A i \in 1..3 : out.entries[i].fulfills = <<>>

\* the five backups listed at T
C7_Witness ==
    /\ ReadOfDir
    /\ out.status = "ok"
    /\ config = ScenarioConfig
    /\ Len(out.entries) = 5
    /\ \A k \in 0..4 : out.entries[5 - k].timestamp = shift(out.now, "Day", -k)

(***************************************************************************)
(* Properties of the tagging loop of mark_range (Spec).                    *)
(***************************************************************************)
\* the entry map of a successful read: HashMap<Timestamp, Entry>
EntryMap == by_timestamp(out.entries)

\* the bucket members that the tagging loop of a range looks up in the map:
\* the first of each non-empty bucket under include_first, the last under
\* include_last
LookedUp(range) ==
    LET sorted == sorted_buckets(EntryMap, out.now, range, Rule(range))
    IN {sorted[i][2][1] : i \in {j \in DOMAIN sorted :
                                    Rule(range).include_first /\ sorted[j][2] # <<>>}}
       \cup
       {sorted[i][2][Len(sorted[i][2])] :
            i \in {j \in DOMAIN sorted :
                      Rule(range).include_last /\ sorted[j][2] # <<>>}}

\* C11: the "not found in original list" failure of mark_range is unreachable.
\* No list or delete command ends with it, and in every successful read each
\* timestamp stored as a bucket member, of any range, is a key of the entry map,
\* so every lookup of the tagging loop finds its entry.
C11_LookupNeverFails ==
    out.cmd \in {"list", "delete"} =>
        /\ out.status # "not found in original list"
        /\ out.status = "ok" =>
              \A range \in Range :
                 LET sorted == sorted_buckets(EntryMap, out.now, range, Rule(range))
                 IN \A i \in DOMAIN sorted :
                       Elems(sorted[i][2]) \subseteq DOMAIN EntryMap

\* a read in which a range looked up two different members of one bucket, none
\* of them its own floor, and left a third backup in no bucket
C11_Witness ==
    /\ ReadOk
    /\ Len(out.entries) = 3
    /\ \E range \in Range :
          /\ Cardinality(LookedUp(range)) = 2
          /\ \A ts \in LookedUp(range) : floor(ts, range) # ts
          /\ Cardinality({floor(ts, range) : ts \in LookedUp(range)}) = 1
          /\ \E e \in Elems(out.entries) :
                floor(e.timestamp, range) \notin Keys(range)

(***************************************************************************)
(* Properties of the fulfills lists (Spec).                                *)
(***************************************************************************)
\* the entries of the output whose fulfills hold f
Carriers(f) == {e \in Elems(out.entries) : f \in Elems(e.fulfills)}

\* C12: tag uniqueness.  In the result of read_backups every Fulfillment value
\* (range, index, first_or_last) is carried by at most one entry and appears at
\* most once in the fulfills list of that entry.
C12_TagUniqueness ==
    ReadOk =>
        \A e \in Elems(out.entries) :
            /\ \A i, j \in DOMAIN e.fulfills :
                   e.fulfills[i] = e.fulfills[j] => i = j
            /\ \A f \in Elems(e.fulfills) : Carriers(f) = {e}

\* a read under latest = 2 and both flags in which one entry carries both tags
\* of a bucket besides its latest tag, and two other entries share a bucket of
\* the same range, one as its first and one as its last
C12_Witness ==
    /\ ReadOk
    /\ config.ranges.latest = 2
    /\ Len(out.entries) = 3
    /\ \E range \in Range :
          /\ Carriers(Fulfillment(range, 1, TRUE)) = {out.entries[3]}
          /\ Carriers(Fulfillment(range, 1, FALSE)) = {out.entries[3]}
          /\ Carriers(Fulfillment(range, 2, TRUE)) = {out.entries[1]}
          /\ Carriers(Fulfillment(range, 2, FALSE)) = {out.entries[2]}
          /\ Carriers(Fulfillment("None", 1, TRUE)) = {out.entries[3]}
    /\ \E e \in Elems(out.entries) : Len(e.fulfills) >= 3

(***************************************************************************)
(* Properties of delete_stale (Spec).                                      *)
(***************************************************************************)
\* an entry without the order of its fulfills list
Tagged(e) == [path |-> e.path, timestamp |-> e.timestamp,
              fulfills |-> Elems(e.fulfills)]

\* read_backups run again over the directory as it is, at the now of the output
ReadAgain == read_listed(read_dir(dir, config.archive), out.now, config)

\* after a delete with execute: the second read returns exactly the entries
\* that the first read tagged, each with the same non-empty fulfillment set,
\* so nothing is left for a second delete to remove
SecondReadSame ==
    (out.cmd = "delete" /\ out.status = "ok" /\ out.execute) =>
        \E again \in {ReadAgain} :
            /\ again.ok
            /\ {Tagged(e) : e \in Elems(again.entries)}
                 = {Tagged(e) : e \in {o \in Elems(out.entries) : o.fulfills # <<>>}}
            /\ \A e \in Elems(again.entries) : e.fulfills # <<>>
            /\ {e.path : e \in Elems(again.entries)} = dir

\* C13: deletion is idempotent at a fixed policy and a fixed now.  After
\* delete_stale with execute has removed every entry without fulfillment,
\* read_backups over the remaining files at the same now gives each of them the
\* same non-empty fulfillment set as before, so a second delete_stale removes
\* nothing; a delete_stale without execute removes no file.
C13_DeleteIdempotent ==
    /\ []SecondReadSame
    /\ [][(out'.cmd = "delete" /\ ~out'.execute) => dir' = dir]_vars

\* a delete with execute that read three backups, removed a stale one between
\* two kept ones, under a sparse rule that tags in some range
C13_Witness ==
    /\ out.cmd = "delete" /\ out.status = "ok" /\ out.execute
    /\ Len(out.entries) = 3
    /\ out.entries[1].fulfills # <<>>
    /\ out.entries[2].fulfills = <<>>
    /\ out.entries[3].fulfills # <<>>
    /\ Cardinality(dir) = 2
    /\ \E range \in Range :
          /\ Rule(range).allow_sparse
          /\ TagsOf(out.entries[1], range) # {}

(***************************************************************************)
(* Properties of create_backup (SpecMinute).                               *)
(***************************************************************************)
\* no command has failed on a timestamp conflict among the files of the
\* directory: neither read_backups nor the read_dir of create_backup
ReadsWithoutConflict ==
    /\ out.cmd \in {"list", "delete"} => out.status # "timestamps conflict"
    /\ out.cmd = "add" => out.status # "Other: read existing backups"

\* a create_backup that succeeds writes a file that was not there
WritesNewFile ==
    (out'.cmd = "add" /\ out'.status = "ok") => out'.path \notin dir

\* C14: adding backups keeps the target directory readable.  From the empty
\* directory, after any sequence of create_backup calls, successful or rejected
\* with TimestampConflict, under any configured timestamp_format: no two backup
\* files parse to the same Timestamp, no successful create_backup has replaced
\* a backup file that existed, and no read of the directory fails with a
\* timestamp conflict.
C14_AddKeepsReadable ==
    /\ [](~HasConflict /\ ReadsWithoutConflict)
    /\ [][WritesNewFile]_vars

====
